---- MODULE Spec2Model ----
(***************************************************************************)
(* Statistics engine of device-state-exchange-lib (src/src/lib.rs):        *)
(* TargetStats (three independent AtomicI64 counters per point) and        *)
(* ConnectionStats (address -> shared TargetStats, plus get_all_stats),   *)
(* and the exclusive borrow that the `&mut self` calls of the Connection   *)
(* trait take on the driver instance.                                      *)
(*                                                                         *)
(* Every atomic access of the source is one step of the calling task, so   *)
(* the interleavings of concurrent calls are those of the atomic accesses. *)
(* Values stay far from the i64 limits within the bounds used here, so     *)
(* wrapping of fetch_add and overflow of the products do not occur.        *)
(***************************************************************************)
EXTENDS Integers, Sequences, FiniteSets, TLC

\* ---------------------------------------------------------------- bounds
NumPoints == 2
MaxCalls == 3
MaxLatency == 3
NumTasks == 3
NumWriters == 2
MaxWriterCalls == 2
MaxSharedCalls == 3
MaxDriverCalls == 3

Points == 1..NumPoints
Latencies == 0..MaxLatency
Tasks == 1..NumTasks

\* The TargetStats that concurrent tasks share.
SharedPoint == 1

\* The task that owns the connection (sole writer in the shared setting).
Poller == 1

VARIABLES
    failed_poll_count,     \* [Points -> Int]  Statistics.failed_poll_count
    total_polling_count,   \* [Points -> Int]  Statistics.total_polling_count
    average_response_ms,   \* [Points -> Int]  Statistics.average_response_ms
    targets,               \* ConnectionStats.targets: address -> TargetStats
    borrowed,              \* task holding `&mut` ConnectionArtifact.artifact, or 0
    pc,                    \* [Tasks -> label]  position of each task
    loc,                   \* [Tasks -> record] locals of the call in progress
    calls,                 \* history: per point, calls invoked so far
    only_succ,             \* history: a fresh TargetStats given only the successes
    fresh,                 \* history: a fresh TargetStats created when clear() returned
    invoked                \* number of calls invoked so far

vars == <<failed_poll_count, total_polling_count, average_response_ms, targets,
          borrowed, pc, loc, calls, only_succ, fresh, invoked>>

stats == <<failed_poll_count, total_polling_count, average_response_ms>>
ghost == <<calls, only_succ, fresh, invoked>>

\* ------------------------------------------------------------ data types

\* Statistics::default(): all three atomics are zero.
StatisticsDefault ==
    [failed_poll_count |-> 0, total_polling_count |-> 0, average_response_ms |-> 0]

\* The three counters of point p as they are now.
StatsOf(p) ==
    [failed_poll_count |-> failed_poll_count[p],
     total_polling_count |-> total_polling_count[p],
     average_response_ms |-> average_response_ms[p]]

Abs(x) == IF x < 0 THEN -x ELSE x

\* Rust's i64 `/`: truncates toward zero (b # 0; b = 0 panics, see callers).
i64_div(a, b) ==
    IF (a < 0) = (b < 0) THEN Abs(a) \div Abs(b) ELSE -(Abs(a) \div Abs(b))

\* The locals of a task that has no call in progress and has made none.
NoLoc ==
    [op |-> "none", tgt |-> 0, response_ms |-> 0, pre |-> StatisticsDefault,
     orig_polling_count |-> 0, orig_failed_poll_count |-> 0, orig_response_ms |-> 0,
     order |-> <<>>, idx |-> 0, acc |-> StatisticsDefault,
     next_total |-> 0, next_failed |-> 0,
     ret |-> StatisticsDefault, found |-> 0, outcome |-> "none", steps |-> 0]

\* Registered points: the addresses of the mapping.
Registered == DOMAIN targets

Quiescent == \A t \in Tasks : pc[t] \in {"idle", "panicked"}

\* ------------------------------------------------------------------ Init

\* After init/init_targets: K points registered (K = 0..NumPoints), each
\* TargetStats created by Default, no call made.
Init ==
    /\ failed_poll_count = [p \in Points |-> 0]
    /\ total_polling_count = [p \in Points |-> 0]
    /\ average_response_ms = [p \in Points |-> 0]
    /\ \E K \in 0..NumPoints : targets = [a \in 1..K |-> a]
    /\ borrowed = 0
    /\ pc = [t \in Tasks |-> "idle"]
    /\ loc = [t \in Tasks |-> NoLoc]
    /\ calls = [p \in Points |-> [succ |-> 0, fail |-> 0, clears |-> 0, sum |-> 0]]
    /\ only_succ = [p \in Points |-> StatisticsDefault]
    /\ fresh = [p \in Points |-> [live |-> FALSE, s |-> StatisticsDefault]]
    /\ invoked = 0

\* ------------------------------------------- TargetStats::record_success

\* A variant of new_response_ms that averages the old mean and the new
\* sample without weights.
new_response_ms_unweighted(orig_response_ms, orig_polling_count, orig_failed_poll_count, response_ms) ==
    i64_div(orig_response_ms + response_ms, 2)

\* lib.rs:509-511  the old mean weighted by (total - failed) before the
\* call, plus the sample, divided by the old total + 1.
new_response_ms(orig_response_ms, orig_polling_count, orig_failed_poll_count, response_ms) ==
    i64_div((orig_response_ms * (orig_polling_count - orig_failed_poll_count)) + response_ms,
            orig_polling_count + 1)

\* record_success run to completion on the counters s, with no interference.
SeqRecordSuccess(s, ms) ==
    [failed_poll_count |-> s.failed_poll_count,
     total_polling_count |-> s.total_polling_count + 1,
     average_response_ms |->
        new_response_ms(s.average_response_ms, s.total_polling_count,
                        s.failed_poll_count, ms)]

\* record_failure run to completion on the counters s, with no interference.
SeqRecordFailure(s) ==
    [failed_poll_count |-> s.failed_poll_count + 1,
     total_polling_count |-> s.total_polling_count + 1,
     average_response_ms |-> s.average_response_ms]

\* A call starts on an idle task. For the recording calls pre keeps the
\* counters as the call found them.
Begin(t, op, p, ms, first, order, pre) ==
    /\ pc[t] = "idle"
    /\ invoked' = invoked + 1
    /\ pc' = [pc EXCEPT ![t] = first]
    /\ loc' = [loc EXCEPT ![t] =
                 [NoLoc EXCEPT !.op = op, !.tgt = p, !.response_ms = ms,
                               !.order = order,
                               !.pre = pre]]
    /\ UNCHANGED <<stats, targets, borrowed>>

call_record_success(t, p, ms) ==
    /\ p \in Registered
    /\ Begin(t, "record_success", p, ms, "rs_fetch_add", <<>>, StatsOf(p))
    /\ calls' = [calls EXCEPT ![p].succ = @ + 1, ![p].sum = @ + ms]
    /\ only_succ' = [only_succ EXCEPT ![p] = SeqRecordSuccess(@, ms)]
    /\ fresh' = [fresh EXCEPT ![p].s = IF fresh[p].live THEN SeqRecordSuccess(@, ms) ELSE @]

\* A variant of rs_fetch_add whose fetch_add is on failed_poll_count.
rs_fetch_add_pasted(t) ==
    /\ pc[t] = "rs_fetch_add"
    /\ loc' = [loc EXCEPT ![t].orig_polling_count = failed_poll_count[loc[t].tgt],
                          ![t].steps = @ + 1]
    /\ failed_poll_count' = [failed_poll_count EXCEPT ![loc[t].tgt] = @ + 1]
    /\ pc' = [pc EXCEPT ![t] = "rs_load_failed"]
    /\ UNCHANGED <<total_polling_count, average_response_ms, targets, borrowed, ghost>>

\* lib.rs:494-497  total_polling_count.fetch_add(1)
rs_fetch_add(t) ==
    /\ pc[t] = "rs_fetch_add"
    /\ loc' = [loc EXCEPT ![t].orig_polling_count = total_polling_count[loc[t].tgt],
                          ![t].steps = @ + 1]
    /\ total_polling_count' = [total_polling_count EXCEPT ![loc[t].tgt] = @ + 1]
    /\ pc' = [pc EXCEPT ![t] = "rs_load_failed"]
    /\ UNCHANGED <<failed_poll_count, average_response_ms, targets, borrowed, ghost>>

\* lib.rs:499-502  failed_poll_count.load()
rs_load_failed(t) ==
    /\ pc[t] = "rs_load_failed"
    /\ loc' = [loc EXCEPT ![t].orig_failed_poll_count = failed_poll_count[loc[t].tgt],
                          ![t].steps = @ + 1]
    /\ pc' = [pc EXCEPT ![t] = "rs_load_avg"]
    /\ UNCHANGED <<stats, targets, borrowed, ghost>>

\* lib.rs:504-507  average_response_ms.load()
rs_load_avg(t) ==
    /\ pc[t] = "rs_load_avg"
    /\ loc' = [loc EXCEPT ![t].orig_response_ms = average_response_ms[loc[t].tgt],
                          ![t].steps = @ + 1]
    /\ pc' = [pc EXCEPT ![t] = "rs_store"]
    /\ UNCHANGED <<stats, targets, borrowed, ghost>>

\* The working locals are dropped when a call ends; what the call was and
\* what it returned stay until the task's next call.
Done(l) ==
    [NoLoc EXCEPT !.op = l.op, !.tgt = l.tgt, !.response_ms = l.response_ms,
                  !.pre = l.pre, !.order = l.order, !.ret = l.ret,
                  !.found = l.found, !.outcome = l.outcome, !.steps = l.steps]

\* A variant of rs_store that updates by compare-and-retry: when another
\* task has changed the average since it was loaded, it loads it again.
rs_store_retry(t) ==
    /\ pc[t] = "rs_store"
    /\ IF average_response_ms[loc[t].tgt] # loc[t].orig_response_ms
       THEN /\ pc' = [pc EXCEPT ![t] = "rs_load_avg"]
            /\ loc' = [loc EXCEPT ![t].steps = @ + 1]
            /\ UNCHANGED average_response_ms
       ELSE /\ average_response_ms' =
                  [average_response_ms EXCEPT ![loc[t].tgt] =
                      new_response_ms(loc[t].orig_response_ms, loc[t].orig_polling_count,
                                      loc[t].orig_failed_poll_count, loc[t].response_ms)]
            /\ pc' = [pc EXCEPT ![t] = "idle"]
            /\ loc' = [loc EXCEPT ![t] = Done([@ EXCEPT !.steps = @ + 1])]
    /\ UNCHANGED <<failed_poll_count, total_polling_count, targets, borrowed, ghost>>

\* lib.rs:509-515  compute the mean (a zero divisor panics),
\* average_response_ms.store()
rs_store(t) ==
    /\ pc[t] = "rs_store"
    /\ IF loc[t].orig_polling_count + 1 = 0
       THEN /\ pc' = [pc EXCEPT ![t] = "panicked"]
            /\ UNCHANGED average_response_ms
       ELSE /\ pc' = [pc EXCEPT ![t] = "idle"]
            /\ average_response_ms' =
                  [average_response_ms EXCEPT ![loc[t].tgt] =
                      new_response_ms(loc[t].orig_response_ms, loc[t].orig_polling_count,
                                      loc[t].orig_failed_poll_count, loc[t].response_ms)]
    /\ loc' = [loc EXCEPT ![t] = Done([@ EXCEPT !.steps = @ + 1])]
    /\ UNCHANGED <<failed_poll_count, total_polling_count, targets, borrowed, ghost>>

\* ------------------------------------------- TargetStats::record_failure

call_record_failure(t, p) ==
    /\ p \in Registered
    /\ Begin(t, "record_failure", p, 0, "rf_add_total", <<>>, StatsOf(p))
    /\ calls' = [calls EXCEPT ![p].fail = @ + 1]
    /\ fresh' = [fresh EXCEPT ![p].s = IF fresh[p].live THEN SeqRecordFailure(@) ELSE @]
    /\ UNCHANGED only_succ

\* A variant of rf_add_total whose fetch_add is on average_response_ms.
rf_add_total_pasted(t) ==
    /\ pc[t] = "rf_add_total"
    /\ average_response_ms' = [average_response_ms EXCEPT ![loc[t].tgt] = @ + 1]
    /\ loc' = [loc EXCEPT ![t].steps = @ + 1]
    /\ pc' = [pc EXCEPT ![t] = "rf_add_failed"]
    /\ UNCHANGED <<failed_poll_count, total_polling_count, targets, borrowed, ghost>>

\* lib.rs:520-522  total_polling_count.fetch_add(1)
rf_add_total(t) ==
    /\ pc[t] = "rf_add_total"
    /\ total_polling_count' = [total_polling_count EXCEPT ![loc[t].tgt] = @ + 1]
    /\ loc' = [loc EXCEPT ![t].steps = @ + 1]
    /\ pc' = [pc EXCEPT ![t] = "rf_add_failed"]
    /\ UNCHANGED <<failed_poll_count, average_response_ms, targets, borrowed, ghost>>

\* A variant of rf_add_failed that stores the count found at the start of
\* the call plus one, instead of an atomic read-modify-write.
rf_add_failed_stale(t) ==
    /\ pc[t] = "rf_add_failed"
    /\ failed_poll_count' = [failed_poll_count EXCEPT ![loc[t].tgt] =
                                loc[t].pre.failed_poll_count + 1]
    /\ loc' = [loc EXCEPT ![t] = Done([@ EXCEPT !.steps = @ + 1])]
    /\ pc' = [pc EXCEPT ![t] = "idle"]
    /\ UNCHANGED <<total_polling_count, average_response_ms, targets, borrowed, ghost>>

\* lib.rs:524-526  failed_poll_count.fetch_add(1)
rf_add_failed(t) ==
    /\ pc[t] = "rf_add_failed"
    /\ failed_poll_count' = [failed_poll_count EXCEPT ![loc[t].tgt] = @ + 1]
    /\ loc' = [loc EXCEPT ![t] = Done([@ EXCEPT !.steps = @ + 1])]
    /\ pc' = [pc EXCEPT ![t] = "idle"]
    /\ UNCHANGED <<total_polling_count, average_response_ms, targets, borrowed, ghost>>

\* ----------------------------------------- TargetStats::get_latest_value

call_get_latest_value(t, p) ==
    /\ p \in Registered
    /\ Begin(t, "get_latest_value", p, 0, "glv_load_failed", <<>>, StatisticsDefault)
    /\ UNCHANGED <<calls, only_succ, fresh>>

\* lib.rs:531-533  failed_poll_count.load()
glv_load_failed(t) ==
    /\ pc[t] = "glv_load_failed"
    /\ loc' = [loc EXCEPT ![t].ret.failed_poll_count = failed_poll_count[loc[t].tgt],
                          ![t].steps = @ + 1]
    /\ pc' = [pc EXCEPT ![t] = "glv_load_total"]
    /\ UNCHANGED <<stats, targets, borrowed, ghost>>

\* lib.rs:534-536  total_polling_count.load()
glv_load_total(t) ==
    /\ pc[t] = "glv_load_total"
    /\ loc' = [loc EXCEPT ![t].ret.total_polling_count = total_polling_count[loc[t].tgt],
                          ![t].steps = @ + 1]
    /\ pc' = [pc EXCEPT ![t] = "glv_load_avg"]
    /\ UNCHANGED <<stats, targets, borrowed, ghost>>

\* A variant of glv_load_avg that takes the average with swap(0) instead of
\* load().
glv_load_avg_take(t) ==
    /\ pc[t] = "glv_load_avg"
    /\ loc' = [loc EXCEPT ![t] =
                 Done([@ EXCEPT !.ret.average_response_ms = average_response_ms[loc[t].tgt],
                                !.steps = @ + 1])]
    /\ average_response_ms' = [average_response_ms EXCEPT ![loc[t].tgt] = 0]
    /\ pc' = [pc EXCEPT ![t] = "idle"]
    /\ UNCHANGED <<failed_poll_count, total_polling_count, targets, borrowed, ghost>>

\* lib.rs:537-539  average_response_ms.load(), return the triple
glv_load_avg(t) ==
    /\ pc[t] = "glv_load_avg"
    /\ loc' = [loc EXCEPT ![t] =
                 Done([@ EXCEPT !.ret.average_response_ms = average_response_ms[loc[t].tgt],
                                !.steps = @ + 1])]
    /\ pc' = [pc EXCEPT ![t] = "idle"]
    /\ UNCHANGED <<stats, targets, borrowed, ghost>>

\* ---------------------------------------------------- TargetStats::clear

call_clear(t, p) ==
    /\ p \in Registered
    /\ Begin(t, "clear", p, 0, "clr_failed", <<>>, StatisticsDefault)
    /\ calls' = [calls EXCEPT ![p].clears = @ + 1]
    /\ fresh' = [fresh EXCEPT ![p] = [live |-> FALSE, s |-> StatisticsDefault]]
    /\ UNCHANGED only_succ

\* lib.rs:544-546  failed_poll_count.store(0)
clr_failed(t) ==
    /\ pc[t] = "clr_failed"
    /\ failed_poll_count' = [failed_poll_count EXCEPT ![loc[t].tgt] = 0]
    /\ loc' = [loc EXCEPT ![t].steps = @ + 1]
    /\ pc' = [pc EXCEPT ![t] = "clr_total"]
    /\ UNCHANGED <<total_polling_count, average_response_ms, targets, borrowed, ghost>>

\* lib.rs:547-549  total_polling_count.store(0)
clr_total(t) ==
    /\ pc[t] = "clr_total"
    /\ total_polling_count' = [total_polling_count EXCEPT ![loc[t].tgt] = 0]
    /\ loc' = [loc EXCEPT ![t].steps = @ + 1]
    /\ pc' = [pc EXCEPT ![t] = "clr_avg"]
    /\ UNCHANGED <<failed_poll_count, average_response_ms, targets, borrowed, ghost>>

\* A variant of clr_avg that leaves the average as it is.
clr_avg_kept(t) ==
    /\ pc[t] = "clr_avg"
    /\ loc' = [loc EXCEPT ![t] = Done([@ EXCEPT !.steps = @ + 1])]
    /\ pc' = [pc EXCEPT ![t] = "idle"]
    /\ fresh' = [fresh EXCEPT ![loc[t].tgt] = [live |-> TRUE, s |-> StatisticsDefault]]
    /\ UNCHANGED <<stats, targets, borrowed, calls, only_succ, invoked>>

\* lib.rs:550-552  average_response_ms.store(0). On return a fresh
\* TargetStats is created next to the cleared one, to compare the two from
\* here on.
clr_avg(t) ==
    /\ pc[t] = "clr_avg"
    /\ average_response_ms' = [average_response_ms EXCEPT ![loc[t].tgt] = 0]
    /\ loc' = [loc EXCEPT ![t] = Done([@ EXCEPT !.steps = @ + 1])]
    /\ pc' = [pc EXCEPT ![t] = "idle"]
    /\ fresh' = [fresh EXCEPT ![loc[t].tgt] = [live |-> TRUE, s |-> StatisticsDefault]]
    /\ UNCHANGED <<failed_poll_count, total_polling_count, targets, borrowed, calls, only_succ, invoked>>

\* --------------------------------------------- ConnectionStats::get_target

\* lib.rs:408-410  targets.get(address_number): the handle, or 0 for None.
call_get_target(t, key) ==
    /\ Begin(t, "get_target", key, 0, "gt_lookup", <<>>, StatisticsDefault)
    /\ UNCHANGED <<calls, only_succ, fresh>>

gt_lookup(t) ==
    /\ pc[t] = "gt_lookup"
    /\ loc' = [loc EXCEPT ![t] =
                 Done([@ EXCEPT !.found = IF loc[t].tgt \in DOMAIN targets
                                          THEN targets[loc[t].tgt] ELSE 0,
                                !.steps = @ + 1])]
    /\ pc' = [pc EXCEPT ![t] = "idle"]
    /\ UNCHANGED <<stats, targets, borrowed, ghost>>

\* ------------------------------------------ ConnectionStats::get_all_stats

\* The orders in which targets.values() can yield the registered points
\* (hashbrown's iteration order is not specified).
Orders ==
    {o \in [1..Cardinality(Registered) -> Registered] :
        \A i, j \in DOMAIN o : i # j => o[i] # o[j]}

\* lib.rs:417-420  fold over targets.values() from Statistics::default():
\* with no point registered the fold returns the default at once, else it
\* starts on the first point that the iterator yields.
call_get_all_stats(t, order) ==
    /\ order \in Orders
    /\ pc[t] = "idle"
    /\ invoked' = invoked + 1
    /\ IF Len(order) = 0
       THEN /\ pc' = pc
            /\ loc' = [loc EXCEPT ![t] = [NoLoc EXCEPT !.op = "get_all_stats"]]
       ELSE /\ pc' = [pc EXCEPT ![t] = "gas_add_failed"]
            /\ loc' = [loc EXCEPT ![t] =
                         [NoLoc EXCEPT !.op = "get_all_stats", !.order = order,
                                       !.idx = 1, !.tgt = order[1]]]
    /\ UNCHANGED <<stats, targets, borrowed, calls, only_succ, fresh>>

\* lib.rs:421-427  accumulator.failed_poll_count += next_target.failed_poll_count
gas_add_failed(t) ==
    /\ pc[t] = "gas_add_failed"
    /\ loc' = [loc EXCEPT ![t].acc.failed_poll_count = @ + failed_poll_count[loc[t].tgt],
                          ![t].steps = @ + 1]
    /\ pc' = [pc EXCEPT ![t] = "gas_add_total"]
    /\ UNCHANGED <<stats, targets, borrowed, ghost>>

\* lib.rs:429-435  accumulator.total_polling_count += next_target.total_polling_count
gas_add_total(t) ==
    /\ pc[t] = "gas_add_total"
    /\ loc' = [loc EXCEPT ![t].acc.total_polling_count = @ + total_polling_count[loc[t].tgt],
                          ![t].steps = @ + 1]
    /\ pc' = [pc EXCEPT ![t] = "gas_load_total"]
    /\ UNCHANGED <<stats, targets, borrowed, ghost>>

\* lib.rs:447-450  (in the closure) next_target.total_polling_count.load()
gas_load_total(t) ==
    /\ pc[t] = "gas_load_total"
    /\ loc' = [loc EXCEPT ![t].next_total = total_polling_count[loc[t].tgt],
                          ![t].steps = @ + 1]
    /\ pc' = [pc EXCEPT ![t] = "gas_load_failed"]
    /\ UNCHANGED <<stats, targets, borrowed, ghost>>

\* lib.rs:451-454  (in the closure) next_target.failed_poll_count.load()
gas_load_failed(t) ==
    /\ pc[t] = "gas_load_failed"
    /\ loc' = [loc EXCEPT ![t].next_failed = failed_poll_count[loc[t].tgt],
                          ![t].steps = @ + 1]
    /\ pc' = [pc EXCEPT ![t] = "gas_merge"]
    /\ UNCHANGED <<stats, targets, borrowed, ghost>>

\* lib.rs:460-469  the merged average; the accumulator's counters already
\* include the point being merged (they were added at lib.rs:421-435).
\* The result is <<ok, value>>: a zero divisor panics.
merge_average_response_ms(acc_avg, acc_total, acc_failed, next_total, next_failed, next_avg) ==
    LET current_success_count == acc_total - acc_failed
        next_success_count == next_total - next_failed
    IN  IF current_success_count + next_success_count = 0
        THEN <<FALSE, 0>>
        ELSE <<TRUE,
               i64_div((acc_avg * current_success_count)
                         + (next_avg * next_success_count),
                       current_success_count + next_success_count)>>

\* lib.rs:437-474  next_target.average_response_ms.load(), then the
\* fetch_update of the accumulator's average. The accumulator belongs to
\* this call alone, so the compare-exchange of fetch_update meets no
\* competing write and the closure runs once (a spurious failure of the
\* weak compare-exchange, possible on some targets, is not modelled). Then
\* the fold goes on to the next point, or returns the accumulator after the
\* last one.
gas_merge(t) ==
    /\ pc[t] = "gas_merge"
    /\ LET l == loc[t]
           m == merge_average_response_ms(
                    l.acc.average_response_ms,
                    l.acc.total_polling_count, l.acc.failed_poll_count,
                    l.next_total, l.next_failed,
                    average_response_ms[l.tgt])
           acc == [l.acc EXCEPT !.average_response_ms = m[2]]
       IN  IF ~m[1]
           THEN /\ loc' = [loc EXCEPT ![t] = Done([l EXCEPT !.steps = @ + 1])]
                /\ pc' = [pc EXCEPT ![t] = "panicked"]
           ELSE IF l.idx = Len(l.order)
           THEN /\ loc' = [loc EXCEPT ![t] = Done([l EXCEPT !.ret = acc, !.steps = @ + 1])]
                /\ pc' = [pc EXCEPT ![t] = "idle"]
           ELSE /\ loc' = [loc EXCEPT ![t] =
                             [l EXCEPT !.acc = acc, !.idx = @ + 1,
                                       !.tgt = l.order[l.idx + 1],
                                       !.next_total = 0, !.next_failed = 0,
                                       !.steps = @ + 1]]
                /\ pc' = [pc EXCEPT ![t] = "gas_add_failed"]
    /\ UNCHANGED <<stats, targets, borrowed, ghost>>

\* ------------------------------------------------ Connection (the driver)

\* How a call on the driver ends: it returns Ok or Err, or its future is
\* dropped before it completes.
Outcomes == {"ok", "err", "dropped"}

\* lib.rs:285-288, 318, 326-329  request_process, reconnect and
\* update_config take `&mut self`: the future that the call returns keeps
\* the exclusive borrow of the driver instance until it ends.
DriverCall(t, op) ==
    /\ pc[t] = "idle"
    /\ invoked' = invoked + 1
    /\ pc' = [pc EXCEPT ![t] = "drv_pending"]
    /\ loc' = [loc EXCEPT ![t] = [NoLoc EXCEPT !.op = op]]
    /\ borrowed' = t
    /\ UNCHANGED <<stats, targets, calls, only_succ, fresh>>

\* A variant of call_request_process declared with `&self`: the call starts
\* whether or not the driver instance is borrowed.
call_request_process_shared(t) ==
    DriverCall(t, "request_process")

\* lib.rs:285-288  request_process(&mut self, request): an exclusive borrow
\* is granted only while no other borrow of the instance is live.
call_request_process(t) ==
    /\ borrowed = 0
    /\ DriverCall(t, "request_process")

\* lib.rs:318  reconnect(&mut self)
call_reconnect(t) ==
    /\ borrowed = 0
    /\ DriverCall(t, "reconnect")

\* lib.rs:326-329  update_config(&mut self, new_config)
call_update_config(t) ==
    /\ borrowed = 0
    /\ DriverCall(t, "update_config")

\* The future of a driver call ends, and with it the borrow.
drv_end(t, outcome) ==
    /\ pc[t] = "drv_pending"
    /\ pc' = [pc EXCEPT ![t] = "idle"]
    /\ loc' = [loc EXCEPT ![t] = Done([@ EXCEPT !.outcome = outcome, !.steps = @ + 1])]
    /\ borrowed' = 0
    /\ UNCHANGED <<stats, targets, ghost>>

\* ------------------------------------------------------- specifications

RecordStep(t) ==
    \/ rs_fetch_add(t) \/ rs_load_failed(t) \/ rs_load_avg(t) \/ rs_store(t)
    \/ rf_add_total(t) \/ rf_add_failed(t)

QueryStep(t) ==
    \/ glv_load_failed(t) \/ glv_load_total(t) \/ glv_load_avg(t)
    \/ clr_failed(t) \/ clr_total(t) \/ clr_avg(t)
    \/ gt_lookup(t)
    \/ gas_add_failed(t) \/ gas_add_total(t)
    \/ gas_load_total(t) \/ gas_load_failed(t) \/ gas_merge(t)

\* The steps of the calls that only read.
ReadStep(t) ==
    \/ glv_load_failed(t) \/ glv_load_total(t) \/ glv_load_avg(t)
    \/ gt_lookup(t)
    \/ gas_add_failed(t) \/ gas_add_total(t)
    \/ gas_load_total(t) \/ gas_load_failed(t) \/ gas_merge(t)

\* The calls a task may start: on the points P, with latencies from L, while
\* fewer than n calls have been made.
RecordCall(t, P, L, n) ==
    /\ invoked < n
    /\ \/ \E p \in P, ms \in L : call_record_success(t, p, ms)
       \/ \E p \in P : call_record_failure(t, p)

ReadCall(t, P, n) ==
    /\ invoked < n
    /\ \/ \E p \in P : call_get_latest_value(t, p)
       \/ \E key \in P : call_get_target(t, key)
       \/ \E order \in Orders : call_get_all_stats(t, order)

ClearCall(t, P, n) ==
    /\ invoked < n
    /\ \E p \in P : call_clear(t, p)

\* One caller: every call runs from start to end without interference.
Next ==
    \/ RecordCall(Poller, Points, Latencies, MaxCalls)
    \/ ReadCall(Poller, Points, MaxCalls)
    \/ ClearCall(Poller, Points, MaxCalls)
    \/ RecordStep(Poller)
    \/ QueryStep(Poller)

Spec == Init /\ [][Next]_vars

\* The connection whose only registered point is the shared TargetStats.
InitShared == Init /\ DOMAIN targets = {SharedPoint}

\* Several tasks record on the same TargetStats; no clear, no queries.
Writers == 1..NumWriters

NextWriters ==
    \E t \in Writers :
        \/ RecordCall(t, {SharedPoint}, {1, MaxLatency}, MaxWriterCalls)
        \/ RecordStep(t)

SpecWriters == InitShared /\ [][NextWriters]_vars

\* The polling task records; the other tasks query and clear the same
\* TargetStats while it does.
Readers == Tasks \ {Poller}

NextShared ==
    \/ RecordCall(Poller, {SharedPoint}, {MaxLatency}, MaxSharedCalls)
    \/ RecordStep(Poller)
    \/ \E t \in Readers :
          \/ ReadCall(t, {SharedPoint}, MaxSharedCalls)
          \/ ClearCall(t, {SharedPoint}, MaxSharedCalls)
          \/ QueryStep(t)

SpecShared == InitShared /\ [][NextShared]_vars

\* The polling task records; the other tasks read the same TargetStats while
\* it does. Nobody clears.
NextReaders ==
    \/ RecordCall(Poller, {SharedPoint}, {MaxLatency}, MaxSharedCalls)
    \/ RecordStep(Poller)
    \/ \E t \in Readers :
          \/ ReadCall(t, {SharedPoint}, MaxSharedCalls)
          \/ ReadStep(t)

SpecReaders == InitShared /\ [][NextReaders]_vars

\* Any task may call the driver of the connection, while fewer than n calls
\* have been made.
DriverStep(t, n) ==
    \/ /\ invoked < n
       /\ \/ call_request_process(t)
          \/ call_reconnect(t)
          \/ call_update_config(t)
    \/ \E outcome \in Outcomes : drv_end(t, outcome)

NextDriver == \E t \in Tasks : DriverStep(t, MaxDriverCalls)

SpecDriver == Init /\ [][NextDriver]_vars

\* --------------------------------------------------------------- claims

InProgress(t) == pc[t] \notin {"idle", "panicked"}

\* t's last call was op and it has returned.
Returned(t, op) == pc[t] = "idle" /\ loc[t].op = op

\* C1: when all the record_success/record_failure calls that several tasks
\* made on a TargetStats have completed, in whatever interleaving of their
\* atomic steps, total_polling_count is the number of calls made and
\* failed_poll_count the number of record_failure calls.
C1_CountsMatchCalls ==
    Quiescent =>
        \A p \in Points :
            /\ total_polling_count[p] = calls[p].succ + calls[p].fail
            /\ failed_poll_count[p] = calls[p].fail

\* Two calls that both started before either had touched the counters, a
\* success and a failure, have both completed.
C1_Witness ==
    /\ Quiescent
    /\ Returned(1, "record_success") /\ Returned(2, "record_failure")
    /\ loc[1].tgt = loc[2].tgt
    /\ loc[1].pre.total_polling_count = 0 /\ loc[2].pre.total_polling_count = 0
    /\ total_polling_count[loc[1].tgt] = 2 /\ failed_poll_count[loc[1].tgt] = 1

\* C2: a record_success(latency_ms) that runs without interference leaves
\* average = (old_avg * old_success_count + latency_ms) / (old_success_count + 1),
\* old_success_count = old_total - old_failed, from every prior state.
C2_WeightedBySuccessCount ==
    \A t \in Tasks :
        Returned(t, "record_success") =>
            LET old_success_count ==
                    loc[t].pre.total_polling_count - loc[t].pre.failed_poll_count
            IN  average_response_ms[loc[t].tgt] =
                    i64_div((loc[t].pre.average_response_ms * old_success_count)
                              + loc[t].response_ms,
                            old_success_count + 1)

\* Point p has received N >= 1 successes and nothing else since creation.
OnlySuccesses(p) ==
    /\ Quiescent
    /\ calls[p].succ >= 1 /\ calls[p].fail = 0 /\ calls[p].clears = 0

\* C3 (as stated): after N >= 1 sequential successes on a fresh TargetStats
\* the average is floor(sum of the latencies / N), whatever their order.
C3_ExactMean ==
    \A p \in Points :
        OnlySuccesses(p) => average_response_ms[p] = calls[p].sum \div calls[p].succ

\* C3 (amended): after N >= 1 sequential successes on a fresh TargetStats the
\* average never exceeds floor(sum/N), falls short of sum/N by at most
\* (N-1)/2 (N*avg >= sum - N(N-1)/2), and is exactly floor(sum/N) for N <= 2.
C3_MeanWithinDrift ==
    \A p \in Points :
        OnlySuccesses(p) =>
            LET N == calls[p].succ
                avg == average_response_ms[p]
            IN  /\ N * avg <= calls[p].sum
                /\ 2 * N * avg >= 2 * calls[p].sum - N * (N - 1)
                /\ N <= 2 => avg = calls[p].sum \div N

\* Three successes whose truncations have accumulated: the average is below
\* floor(sum/3).
C3_Witness ==
    \E p \in Points :
        /\ OnlySuccesses(p) /\ calls[p].succ = 3
        /\ average_response_ms[p] < calls[p].sum \div 3

\* C4: after any sequential sequence of record_success and record_failure
\* calls on a fresh TargetStats, the average equals the one that the
\* record_success calls alone, in the same order, leave on a fresh TargetStats.
C4_AverageIgnoresFailures ==
    \A p \in Points :
        (Quiescent /\ calls[p].clears = 0) =>
            average_response_ms[p] = only_succ[p].average_response_ms

RECURSIVE SumOver(_, _)
SumOver(f, S) ==
    IF S = {} THEN 0
    ELSE LET x == CHOOSE y \in S : TRUE IN f[x] + SumOver(f, S \ {x})

\* t's last call was get_all_stats and it has ended, by returning or by a panic.
EndedGetAllStats(t) ==
    loc[t].op = "get_all_stats" /\ pc[t] \in {"idle", "panicked"}

\* C5: for K >= 0 registered points with quiescent counters, get_all_stats
\* returns an aggregate whose failed count is the sum of the points' failed
\* counts and whose total count is the sum of their total counts, in every
\* iteration order.
C5_AggregateSums ==
    \A t \in Tasks :
        EndedGetAllStats(t) =>
            /\ pc[t] = "idle"
            /\ loc[t].ret.failed_poll_count = SumOver(failed_poll_count, Registered)
            /\ loc[t].ret.total_polling_count = SumOver(total_polling_count, Registered)

\* The merge as the claim C6 states it: point i is merged with the successes
\* S of the points folded before it as the weight of the running average.
RECURSIVE C6_Merge(_, _, _, _)
C6_Merge(order, i, S, agg_avg) ==
    IF i > Len(order) THEN agg_avg
    ELSE LET s_i == total_polling_count[order[i]] - failed_poll_count[order[i]]
             a_i == average_response_ms[order[i]]
         IN  C6_Merge(order, i + 1, S + s_i,
                      IF S + s_i = 0 THEN agg_avg
                      ELSE i64_div((agg_avg * S) + (a_i * s_i), S + s_i))

\* C6: the average that get_all_stats returns is the success-weighted merge
\* of the per-point averages folded in mapping order, each point i updating
\* the running average to (agg_avg * S + a_i * s_i) / (S + s_i) with S the
\* successes of the points folded before it.
C6_WeightedMerge ==
    \A t \in Tasks :
        Returned(t, "get_all_stats") =>
            loc[t].ret.average_response_ms = C6_Merge(loc[t].order, 1, 0, 0)

\* C7: clear() on a quiescent TargetStats leaves (0, 0, 0), and the calls
\* made afterwards leave the same counters, and return the same
\* get_latest_value triples, as on a TargetStats created when clear returned.
C7_ClearThenAsFresh ==
    /\ \A t \in Tasks :
          Returned(t, "clear") => StatsOf(loc[t].tgt) = StatisticsDefault
    /\ \A p \in Points :
          (Quiescent /\ fresh[p].live) => StatsOf(p) = fresh[p].s
    /\ \A t \in Tasks :
          (Returned(t, "get_latest_value") /\ fresh[loc[t].tgt].live) =>
              loc[t].ret = fresh[loc[t].tgt].s

\* A point that had a success with a positive latency was cleared and then
\* received a success with a positive latency.
C7_Witness ==
    \E p \in Points :
        /\ Returned(Poller, "record_success") /\ loc[Poller].tgt = p
        /\ fresh[p].live
        /\ calls[p].succ = 2 /\ calls[p].clears = 1
        /\ total_polling_count[p] = 1
        /\ average_response_ms[p] > 0
        /\ calls[p].sum > average_response_ms[p]

\* The number of steps each operation takes when it returns.
FixedSteps(l) ==
    CASE l.op = "record_success" -> 4
      [] l.op = "record_failure" -> 2
      [] l.op = "get_latest_value" -> 3
      [] l.op = "clear" -> 3
      [] l.op = "get_target" -> 1
      [] l.op = "get_all_stats" -> 5 * Len(l.order)
      [] OTHER -> 0

\* C8: while the polling task records and other tasks read, aggregate and
\* clear the same TargetStats, every operation in progress has an enabled
\* next step of its own, and every operation ends after a fixed number of
\* its own steps, never waiting for nor retrying because of another task.
C8_NonBlocking ==
    \A t \in Tasks :
        /\ InProgress(t) => ENABLED (RecordStep(t) \/ QueryStep(t))
        /\ InProgress(t) => loc[t].steps < FixedSteps(loc[t])
        /\ pc[t] = "idle" => loc[t].steps = FixedSteps(loc[t])
        /\ pc[t] = "panicked" => loc[t].steps <= FixedSteps(loc[t])

\* The polling task is about to store the average of a record_success while
\* one task is in the middle of clear() and another in the middle of
\* get_all_stats on the same TargetStats.
C8_Witness ==
    \E t2, t3 \in Readers :
        /\ pc[Poller] = "rs_store" /\ loc[Poller].tgt = SharedPoint
        /\ pc[t2] = "clr_total" /\ loc[t2].tgt = SharedPoint
        /\ pc[t3] = "gas_merge" /\ loc[t3].tgt = SharedPoint

\* t has a call on the driver instance in progress.
InDriver(t) == pc[t] = "drv_pending"

\* C12: at most one call that borrows the driver instance exclusively
\* (request_process, reconnect, update_config) is in progress at a time,
\* whichever tasks make the calls.
C12_DriverCallsExclusive ==
    \A t1, t2 \in Tasks : (InDriver(t1) /\ InDriver(t2)) => t1 = t2

\* A request_process is in progress on the driver while two other tasks have
\* each had a call on it, one of them a request_process.
C12_Witness ==
    \E t1, t2, t3 \in Tasks :
        /\ t1 # t2 /\ t2 # t3 /\ t1 # t3
        /\ InDriver(t1) /\ loc[t1].op = "request_process"
        /\ Returned(t2, "request_process")
        /\ Returned(t3, "update_config")

\* C13: get_all_stats never faults, whatever the quiescent counters of the
\* registered points are: it always returns.
C13_GetAllStatsNeverFaults ==
    \A t \in Tasks : loc[t].op = "get_all_stats" => pc[t] # "panicked"

\* C14: record_success recomputes the average atomically: when two
\* record_success calls on a fresh TargetStats interleave (no failure, no
\* clear) and both have completed, the average is the one that one of the two
\* sequential orders of the two calls leaves.
C14_AverageAsSomeSequentialOrder ==
    \A t1, t2 \in Writers :
        \A p \in Points :
            ( /\ t1 # t2 /\ Quiescent
              /\ Returned(t1, "record_success") /\ loc[t1].tgt = p
              /\ Returned(t2, "record_success") /\ loc[t2].tgt = p
              /\ calls[p].succ = 2 /\ calls[p].fail = 0 /\ calls[p].clears = 0 )
            =>
            LET m1 == loc[t1].response_ms
                m2 == loc[t2].response_ms
                one_then_two == SeqRecordSuccess(SeqRecordSuccess(StatisticsDefault, m1), m2)
                two_then_one == SeqRecordSuccess(SeqRecordSuccess(StatisticsDefault, m2), m1)
            IN  average_response_ms[p] \in
                    {one_then_two.average_response_ms, two_then_one.average_response_ms}

C16_QuiescentFailedWithinTotal ==
    Quiescent =>
        \A p \in Points :
            0 <= failed_poll_count[p] /\ failed_poll_count[p] <= total_polling_count[p]

\* get_all_stats run to completion over the points in the given order, on the
\* counters as they are now: <<TRUE, aggregate>>, or <<FALSE, default>> when
\* the merge of some point panics.
RECURSIVE FoldAllStats(_, _, _)
FoldAllStats(order, i, acc) ==
    IF i > Len(order) THEN <<TRUE, acc>>
    ELSE LET p == order[i]
             added == [acc EXCEPT !.failed_poll_count = @ + failed_poll_count[p],
                                  !.total_polling_count = @ + total_polling_count[p]]
             m == merge_average_response_ms(
                      acc.average_response_ms,
                      added.total_polling_count, added.failed_poll_count,
                      total_polling_count[p], failed_poll_count[p],
                      average_response_ms[p])
         IN  IF ~m[1] THEN <<FALSE, StatisticsDefault>>
             ELSE FoldAllStats(order, i + 1, [added EXCEPT !.average_response_ms = m[2]])

\* C17: for fixed quiescent counters, get_all_stats gives the same result
\* in whatever order the mapping yields the registered points.
C17_OrderIndependent ==
    \A t \in Tasks :
        (Quiescent /\ EndedGetAllStats(t)) =>
            \A o \in Orders :
                FoldAllStats(o, 1, StatisticsDefault) =
                    IF pc[t] = "idle" THEN <<TRUE, loc[t].ret>>
                    ELSE <<FALSE, StatisticsDefault>>

\* C18: a record_failure that runs without interference adds one to total,
\* adds one to failed and leaves the average as it was, whatever the counters
\* were before the call.
C18_RecordFailureFrame ==
    \A t \in Tasks :
        Returned(t, "record_failure") =>
            StatsOf(loc[t].tgt) =
                [failed_poll_count |-> loc[t].pre.failed_poll_count + 1,
                 total_polling_count |-> loc[t].pre.total_polling_count + 1,
                 average_response_ms |-> loc[t].pre.average_response_ms]

\* A record_failure has returned on a point that already had a failure and a
\* positive average.
C18_Witness ==
    /\ Returned(Poller, "record_failure")
    /\ loc[Poller].pre.failed_poll_count >= 1
    /\ loc[Poller].pre.average_response_ms > 0

\* The operations that only query.
QueryOps == {"get_latest_value", "get_target", "get_all_stats"}

\* C19: every step of get_latest_value, get_target and get_all_stats, from
\* the call to the return, leaves the counters of every point and the
\* mapping as they were; and get_target(key) returns the handle registered
\* under key, or nothing when the mapping has no such key.
C19_QueriesReadOnly ==
    [][\A t \in Tasks :
          (loc'[t].op \in QueryOps /\ <<pc[t], loc[t]>> # <<pc'[t], loc'[t]>>) =>
              /\ UNCHANGED <<stats, targets>>
              /\ (pc'[t] = "idle" /\ loc'[t].op = "get_target") =>
                    loc'[t].found = IF loc'[t].tgt \in DOMAIN targets
                                    THEN targets[loc'[t].tgt] ELSE 0]_vars

\* get_latest_value has returned the counters of a point with two successes
\* and a positive average, and they are still what it returned.
C19_Witness ==
    /\ Returned(Poller, "get_latest_value")
    /\ loc[Poller].ret.total_polling_count = 2
    /\ loc[Poller].ret.average_response_ms > 0
    /\ StatsOf(loc[Poller].tgt) = loc[Poller].ret

====
